---------------------------- MODULE Spec2Model ----------------------------
(***************************************************************************)
(* Model of benchexec/check_cgroups.py: the cgroup availability check      *)
(* (check_cgroup_availability), its thread wrapper                         *)
(* (check_cgroup_availability_in_thread, _CheckCgroupsThread) and main.    *)
(*                                                                         *)
(* Texts (paths, lines of the probe's output) are sequences of tokens.  A  *)
(* token is one character; the literal words of the source that no         *)
(* operation of the program splits (subsystem names, the two halves of the *)
(* echoed shell command) are kept as one token each.                       *)
(***************************************************************************)
EXTENDS Integers, Sequences, FiniteSets

\* ------------------------------------------------------------- bounds --
\* Largest number of lines of an arbitrary probe output (SpecFilter).
MaxLines == 3
\* Largest number of invocations of main in one process (SpecIso).
MaxInvocations == 2

\* ---------------------------------------------------------- subsystems --
CPUACCT == "cpuacct"
CPUSET == "cpuset"
MEMORY == "memory"
FREEZER == "freezer"

Subsystems == {CPUACCT, CPUSET, MEMORY, FREEZER}

\* The order of the comparison loop.
CheckOrder == <<CPUACCT, CPUSET, MEMORY, FREEZER>>

\* --------------------------------------------------------------- texts --
Whitespace == {" ", "\t", "\n", "\r"}

RECURSIVE LStrip(_)
LStrip(s) ==
    IF s = <<>> THEN s
    ELSE IF Head(s) \in Whitespace THEN LStrip(Tail(s)) ELSE s

RECURSIVE RStrip(_)
RStrip(s) ==
    IF s = <<>> THEN s
    ELSE IF s[Len(s)] \in Whitespace THEN RStrip(SubSeq(s, 1, Len(s) - 1)) ELSE s

\* str.strip()
Strip(s) == RStrip(LStrip(s))

\* str.startswith(prefix)
StartsWith(s, p) == Len(p) <= Len(s) /\ SubSeq(s, 1, Len(p)) = p

\* os.path.join(a, b)
JoinPath(a, b) ==
    IF b # <<>> /\ Head(b) = "/" THEN b
    ELSE IF a = <<>> \/ a[Len(a)] = "/" THEN a \o b
    ELSE a \o <<"/">> \o b

DigitChar == <<"0", "1", "2", "3", "4", "5", "6", "7", "8", "9">>

\* The decimal text of a non-negative int, as the f-string formats it.
RECURSIVE FormatInt(_)
FormatInt(n) ==
    IF n < 10 THEN <<DigitChar[n + 1]>>
    ELSE FormatInt(n \div 10) \o <<DigitChar[(n % 10) + 1]>>

BENCHMARK == <<"b", "e", "n", "c", "h", "m", "a", "r", "k", "_">>

\* f"sh -c 'sleep {wait}; cat /proc/self/cgroup'"
EchoedCommand(w) == <<"sh -c 'sleep ">> \o FormatInt(w) \o <<"; cat /proc/self/cgroup'">>

\* all(c == "-" for c in line)
AnyDash(line) == \E i \in DOMAIN line : line[i] = "-"
AllDashes(line) == \A i \in DOMAIN line : line[i] = "-"

\* The condition under which a stripped line is appended to lines.
KeepLine(line, w) ==
    /\ line # <<>>
    /\ ~(line = EchoedCommand(w))
    /\ ~AllDashes(line)

\* The loop over the lines of the scratch file.
RECURSIVE FilterLines(_, _)
FilterLines(raw, w) ==
    IF raw = <<>> THEN <<>>
    ELSE LET line == Strip(Head(raw))
         IN  (IF KeepLine(line, w) THEN <<line>> ELSE <<>>) \o FilterLines(Tail(raw), w)

\* --------------------------------------------------------- exceptions --
None == [type |-> "None", id |-> 0]

\* A raised exception object: its class and its identity.
Exc(type, id) == [type |-> type, id |-> id]

\* bool(e) of `if thread.error`
Truthy(e) == e # None


\* -------------------------------------------------------- environment --
\* Values of --wait (default 1) the model runs with.
Waits == {1, 10}

OwnA == <<"/", "a">>
Root == <<"/">>

\* The cgroups of the calling process, per subsystem, for two mount layouts.
LayoutSame == [s \in Subsystems |-> OwnA]
LayoutMixed == [s \in Subsystems |-> IF s \in {CPUSET, FREEZER} THEN Root ELSE OwnA]

Restrict(f, D) == [s \in D |-> f[s]]

\* The snapshots RunExecutor(...).cgroups can hold: any set of mounted subsystems.
Snapshots == {Restrict(L, D) : L \in {LayoutSame, LayoutMixed}, D \in SUBSET Subsystems}

\* Cgroups the kernel can report for the probe process: a fresh benchmark_ child
\* of /a, a fresh benchmark_ child of /, and /a itself (the process was moved).
InChildOfA == OwnA \o <<"/">> \o BENCHMARK \o <<"1">>
InChildOfRoot == <<"/">> \o BENCHMARK \o <<"1">>
TaskPaths == {InChildOfA, InChildOfRoot, OwnA}

\* A placement: the path the probe reports, for the subsystems it reports at all.
AllPlacements == UNION {[D -> TaskPaths] : D \in SUBSET Subsystems}

\* The placements of the two scenarios with a full snapshot under /a.
ScenarioPlacements ==
    {[s \in Subsystems |-> InChildOfA],
     [s \in Subsystems |-> IF s = CPUACCT THEN OwnA ELSE InChildOfA]}

ScenarioSnapshots == {LayoutSame, Restrict(LayoutSame, Subsystems \ {MEMORY})}

HierarchyId == [s \in Subsystems |->
    CASE s = CPUACCT -> "2" [] s = CPUSET -> "3" [] s = MEMORY -> "4" [] OTHER -> "5"]

\* One line of /proc/self/cgroup: "<id>:<subsystem>:<path>\n".
RecordLine(s, path) == <<HierarchyId[s], ":", s, ":">> \o path \o <<"\n">>

\* Lines a noisy environment adds around the records.
BlankLine == <<" ", "\n">>
DashLine == <<"-", "-", "-", "\n">>
ForeignRecord == <<"1", ":", "pids", ":", "/", "x", "\n">>
EchoLine(w) == EchoedCommand(w) \o <<"\n">>

\* What the probe writes to the scratch file: the records of its placement in
\* hierarchy order; with noise, the echoed command and a separator first, every
\* record indented and followed by a blank line, and a foreign record last.
RECURSIVE Render(_, _, _, _)
Render(order, placement, noise, w) ==
    IF order = <<>> THEN (IF noise THEN <<ForeignRecord>> ELSE <<>>)
    ELSE LET s == Head(order)
             rec == IF s \in DOMAIN placement
                    THEN (IF noise
                          THEN <<<<" ">> \o RecordLine(s, placement[s]), BlankLine>>
                          ELSE <<RecordLine(s, placement[s])>>)
                    ELSE <<>>
         IN  rec \o Render(Tail(order), placement, noise, w)

ProbeOutput(placement, noise, w) ==
    (IF noise THEN <<EchoLine(w), DashLine>> ELSE <<>>)
        \o Render(CheckOrder, placement, noise, w)

\* ------------------------------------------------- placement extractor --
Min(S) == CHOOSE x \in S : \A y \in S : x <= y
Max(S) == CHOOSE x \in S : \A y \in S : x >= y

Colons(line) == {i \in DOMAIN line : line[i] = ":"}
IsRecord(line) == Cardinality(Colons(line)) >= 2
SecondColon(line) == Min(Colons(line) \ {Min(Colons(line))})
\* The comma-separated subsystem names of a record, and its path.
RecordNames(line) ==
    {line[i] : i \in (Min(Colons(line)) + 1)..(SecondColon(line) - 1)} \ {","}
RecordPath(line) == SubSeq(line, SecondColon(line) + 1, Len(line))

RecordsOf(lines, s) ==
    {i \in DOMAIN lines : IsRecord(lines[i]) /\ s \in RecordNames(lines[i])}

\* find_my_cgroups(lines, fallback=False): the path of each subsystem that has a
\* record; a subsystem without a record is absent from the result.
find_my_cgroups(lines) ==
    [s \in {x \in Subsystems : RecordsOf(lines, x) # {}} |->
        RecordPath(lines[Max(RecordsOf(lines, s))])]

\* "no cgroup determinable"
NoCgroup == <<>>

\* task_cgroups[subsystem]
TaskCgroupPath(task, s) == IF s \in DOMAIN task THEN task[s] ELSE NoCgroup

\* subsystem in my_cgroups
HasSubsystem(cg, s) == s \in DOMAIN cg

\* ------------------------------------------------- availability checker --
\* The condition of the first `if`: the three required subsystems are there.
RequiredPresentWithoutMemory(cg) ==
    /\ HasSubsystem(cg, CPUACCT)
    /\ HasSubsystem(cg, CPUSET)

RequiredPresent(cg) ==
    /\ HasSubsystem(cg, CPUACCT)
    /\ HasSubsystem(cg, CPUSET)
    /\ HasSubsystem(cg, MEMORY)

\* One pass of the comparison loop: does it warn about subsystem s.
DeviatesByConcatenation(cg, task, s) ==
    /\ HasSubsystem(cg, s)
    /\ ~StartsWith(TaskCgroupPath(task, s), cg[s] \o <<"/">> \o BENCHMARK)

DeviatesUnlessUndetermined(cg, task, s) ==
    /\ HasSubsystem(cg, s)
    /\ s \in DOMAIN task
    /\ ~StartsWith(task[s], JoinPath(cg[s], BENCHMARK))

Deviates(cg, task, s) ==
    /\ HasSubsystem(cg, s)
    /\ ~StartsWith(TaskCgroupPath(task, s), JoinPath(cg[s], BENCHMARK))

\* The comparison loop: the subsystems warned about, in order.
RECURSIVE CompareFrom(_, _, _)
CompareFrom(order, cg, task) ==
    IF order = <<>> THEN <<>>
    ELSE (IF Deviates(cg, task, Head(order)) THEN <<Head(order)>> ELSE <<>>)
             \o CompareFrom(Tail(order), cg, task)

\* The loop leaving at the first warning.
CompareUntilFirst(cg, task) ==
    LET all == CompareFrom(CheckOrder, cg, task)
    IN  IF all = <<>> THEN all ELSE <<Head(all)>>

Compare(cg, task) == CompareFrom(CheckOrder, cg, task)

EmptyMap == [s \in {} |-> <<>>]

\* --------------------------------------------------------------- state --
VARIABLES
    wait,           \* options.wait
    own_cgroups,    \* the cgroups of the calling process (Cgroup Snapshot Provider)
    env,            \* "any" | "scenario": the placements the system can produce
    inv,            \* number of the current invocation of main
    no_thread,      \* options.no_thread of the current invocation
    mpc,            \* control point of the calling thread
    cpc,            \* control point of check_cgroup_availability
    my_cgroups,     \* local my_cgroups of the check
    tmp,            \* the scratch file: "none" | "open" | "deleted"
    output,         \* the raw lines in the scratch file
    lines,          \* local lines
    task_cgroups,   \* local task_cgroups
    warnings,       \* subsystems named by logging.warning, in order
    raised,         \* exception leaving the check, None when there is none
    threads,        \* the _CheckCgroupsThread objects created, oldest first
    classError,     \* the class attribute _CheckCgroupsThread.error
    probe,          \* what the probe run of this invocation does
    history,        \* one record per completed invocation of main
    trace,          \* the steps of the check of this invocation, in order
    nextId,         \* identity of the next exception object
    executeCalls,   \* calls of execute_run in this invocation
    tmpCreated      \* scratch files created in this invocation

vars == <<wait, own_cgroups, env, inv, no_thread, mpc, cpc, my_cgroups, tmp, output,
          lines, task_cgroups, warnings, raised, threads, classError, probe,
          history, trace, nextId, executeCalls, tmpCreated>>

envVars == <<wait, own_cgroups, env, inv, no_thread>>
callerVars == <<mpc, threads, classError, history>>
checkLocals == <<my_cgroups, output, lines, task_cgroups, warnings>>

NoProbe == [placement |-> EmptyMap, noise |-> FALSE, fault |-> "none"]

Placements == IF env = "any" THEN AllPlacements ELSE ScenarioPlacements
NoiseChoices == IF env = "any" THEN BOOLEAN ELSE {FALSE}

\* The state in which main is entered with a fresh set of locals.
Fresh ==
    /\ mpc = "main"
    /\ cpc = "idle"
    /\ my_cgroups = EmptyMap
    /\ tmp = "none"
    /\ output = <<>>
    /\ lines = <<>>
    /\ task_cgroups = EmptyMap
    /\ warnings = <<>>
    /\ raised = None
    /\ probe = NoProbe
    /\ trace = <<>>
    /\ executeCalls = 0
    /\ tmpCreated = 0

Init ==
    /\ wait \in Waits
    /\ own_cgroups \in Snapshots
    /\ env = "any"
    /\ inv = 1
    /\ no_thread \in BOOLEAN
    /\ threads = <<>>
    /\ classError = None
    /\ history = <<>>
    /\ nextId = 1
    /\ Fresh

\* ------------------------------------------- check_cgroup_availability --
\* raise: the exception leaves the check.
Raise(type) ==
    /\ raised' = Exc(type, nextId)
    /\ nextId' = nextId + 1
    /\ cpc' = "raised"

\* runexecutor = RunExecutor(use_namespaces=False); my_cgroups = runexecutor.cgroups
ReadSnapshot ==
    /\ cpc = "start"
    /\ my_cgroups' = own_cgroups
    /\ trace' = Append(trace, "snapshot")
    /\ cpc' = "validate"
    /\ UNCHANGED <<envVars, callerVars, tmp, output, lines, task_cgroups, warnings,
                   raised, probe, nextId, executeCalls, tmpCreated>>

\* if not (CPUACCT in my_cgroups and CPUSET in my_cgroups and MEMORY in my_cgroups):
\*     sys.exit(1)
Validate ==
    /\ cpc = "validate"
    /\ trace' = Append(trace, "validate")
    /\ IF RequiredPresent(my_cgroups)
       THEN cpc' = "mktemp" /\ UNCHANGED <<raised, nextId>>
       ELSE Raise("SystemExit")
    /\ UNCHANGED <<envVars, callerVars, checkLocals, tmp, probe, executeCalls,
                   tmpCreated>>

\* with tempfile.NamedTemporaryFile(mode="rt") as tmp:
CreateTmp ==
    /\ cpc = "mktemp"
    /\ tmp' = "open"
    /\ tmpCreated' = tmpCreated + 1
    /\ cpc' = "execute"
    /\ UNCHANGED <<envVars, callerVars, checkLocals, raised, probe, trace, nextId,
                   executeCalls>>

\* The scratch file when control leaves the with block, normally or by an exception.
LeaveWithoutCleanup(t) == t
LeaveWith(t) == "deleted"

\* runexecutor.execute_run(...): the probe runs and its output is in the file.
ExecuteRun ==
    /\ cpc = "execute"
    /\ \E pl \in Placements, nz \in NoiseChoices, f \in {"none", "read"} :
          /\ probe' = [placement |-> pl, noise |-> nz, fault |-> f]
          /\ output' = ProbeOutput(pl, nz, wait)
    /\ executeCalls' = executeCalls + 1
    /\ trace' = Append(trace, "execute")
    /\ cpc' = "read"
    /\ UNCHANGED <<envVars, callerVars, my_cgroups, tmp, lines, task_cgroups,
                   warnings, raised, nextId, tmpCreated>>

\* runexecutor.execute_run(...) raises: the with block is left by the exception.
ExecuteRunFails ==
    /\ cpc = "execute"
    /\ probe' = [placement |-> EmptyMap, noise |-> FALSE, fault |-> "execute"]
    /\ executeCalls' = executeCalls + 1
    /\ trace' = Append(trace, "execute")
    /\ tmp' = LeaveWith(tmp)
    /\ Raise("ProbeError")
    /\ UNCHANGED <<envVars, callerVars, checkLocals, tmpCreated>>

\* for line in tmp: ... lines.append(line); then the with block ends.
ReadOutput ==
    /\ cpc = "read"
    /\ probe.fault = "none"
    /\ lines' = FilterLines(output, wait)
    /\ trace' = Append(trace, "read")
    /\ tmp' = LeaveWith(tmp)
    /\ cpc' = "extract"
    /\ UNCHANGED <<envVars, callerVars, my_cgroups, output, task_cgroups, warnings,
                   raised, probe, nextId, executeCalls, tmpCreated>>

\* Reading the file raises, and the probe is run again.
ReadFailsAndRetries ==
    /\ cpc = "read"
    /\ probe.fault = "read"
    /\ trace' = Append(trace, "read")
    /\ cpc' = "execute"
    /\ UNCHANGED <<envVars, callerVars, checkLocals, tmp, raised, probe, nextId,
                   executeCalls, tmpCreated>>

\* Reading the file raises: the with block is left by the exception.
ReadFails ==
    /\ cpc = "read"
    /\ probe.fault = "read"
    /\ trace' = Append(trace, "read")
    /\ tmp' = LeaveWith(tmp)
    /\ Raise("ReadError")
    /\ UNCHANGED <<envVars, callerVars, checkLocals, probe, executeCalls, tmpCreated>>

\* task_cgroups = find_my_cgroups(lines, fallback=False)
Extract ==
    /\ cpc = "extract"
    /\ task_cgroups' = find_my_cgroups(lines)
    /\ trace' = Append(trace, "extract")
    /\ cpc' = "compare"
    /\ UNCHANGED <<envVars, callerVars, my_cgroups, tmp, output, lines, warnings,
                   raised, probe, nextId, executeCalls, tmpCreated>>

\* fail = False; for subsystem in CPUACCT, CPUSET, MEMORY, FREEZER: ...
CompareAll ==
    /\ cpc = "compare"
    /\ warnings' = Compare(my_cgroups, task_cgroups)
    /\ trace' = Append(trace, "compare")
    /\ cpc' = "decide"
    /\ UNCHANGED <<envVars, callerVars, my_cgroups, tmp, output, lines, task_cgroups,
                   raised, probe, nextId, executeCalls, tmpCreated>>

\* The value of fail after the loop.
Fail(w) == w # <<>>

\* if fail: sys.exit(1)
Decide ==
    /\ cpc = "decide"
    /\ trace' = Append(trace, "decide")
    /\ IF Fail(warnings)
       THEN Raise("SystemExit")
       ELSE cpc' = "returned" /\ UNCHANGED <<raised, nextId>>
    /\ UNCHANGED <<envVars, callerVars, checkLocals, tmp, probe, executeCalls,
                   tmpCreated>>

CheckDone == cpc \in {"returned", "raised"}

\* ------------------------------------------------------ thread wrapper --
\* The thread object of the current invocation.
Thread == threads[Len(threads)]

SetThread(t) == [threads EXCEPT ![Len(threads)] = t]

\* thread.error: the instance attribute when run has set it, else the class attribute.
ThreadError(t) == IF t.set THEN t.error ELSE classError

\* except BaseException as e: which exceptions of the check the handler catches.
CaughtIfException(e) == e.type # "SystemExit"
Caught(e) == TRUE

\* self.error = e: the instance attribute of this thread object is set.
StoreErrorInClass(e) ==
    /\ threads' = SetThread([Thread EXCEPT !.state = "terminated"])
    /\ classError' = e

StoreError(e) ==
    /\ threads' = SetThread([Thread EXCEPT !.state = "terminated", !.set = TRUE,
                                           !.error = e])
    /\ classError' = classError

\* thread.join() returns once the thread has terminated.
JoinReady(t) == t.state = "terminated"

\* if __name__ == "__main__": main(): the exit status of the process.
ExitStatus(result) == IF result = None THEN 0 ELSE 1

\* The record of a completed invocation of main.
Completed(result) ==
    [inv |-> inv, no_thread |-> no_thread, snapshot |-> own_cgroups, wait |-> wait,
     probe |-> probe, result |-> result, checkDone |-> CheckDone,
     checkRaised |-> raised,
     threadState |-> IF no_thread THEN "none" ELSE Thread.state]

\* main: if options.no_thread: check_cgroup_availability(options.wait)
MainDirect ==
    /\ mpc = "main"
    /\ no_thread
    /\ mpc' = "direct"
    /\ cpc' = "start"
    /\ UNCHANGED <<envVars, checkLocals, tmp, raised, threads, classError, probe,
                   history, trace, nextId, executeCalls, tmpCreated>>

\* check_cgroup_availability returns to main or raises into it.
DirectDone ==
    /\ mpc = "direct"
    /\ CheckDone
    /\ history' = Append(history, Completed(raised))
    /\ mpc' = "done"
    /\ UNCHANGED <<envVars, cpc, checkLocals, tmp, raised, threads, classError, probe,
                   trace, nextId, executeCalls, tmpCreated>>

\* main: else: check_cgroup_availability_in_thread(options);
\* thread = _CheckCgroupsThread(options)
ThreadCreate ==
    /\ mpc = "main"
    /\ ~no_thread
    /\ threads' = Append(threads, [owner |-> inv, state |-> "new", set |-> FALSE,
                                   error |-> None])
    /\ mpc' = "created"
    /\ UNCHANGED <<envVars, cpc, checkLocals, tmp, raised, classError, probe, history,
                   trace, nextId, executeCalls, tmpCreated>>

\* thread.start()
ThreadStart ==
    /\ mpc = "created"
    /\ threads' = SetThread([Thread EXCEPT !.state = "running"])
    /\ cpc' = "start"
    /\ mpc' = "join"
    /\ UNCHANGED <<envVars, checkLocals, tmp, raised, classError, probe, history,
                   trace, nextId, executeCalls, tmpCreated>>

WorkerRunning == ~no_thread /\ threads # <<>> /\ Thread.owner = inv /\ Thread.state = "running"

\* run: check_cgroup_availability(self.options.wait) returned.
WorkerReturns ==
    /\ WorkerRunning
    /\ cpc = "returned"
    /\ threads' = SetThread([Thread EXCEPT !.state = "terminated"])
    /\ UNCHANGED <<envVars, mpc, cpc, checkLocals, tmp, raised, classError, probe,
                   history, trace, nextId, executeCalls, tmpCreated>>

\* run: except BaseException as e: self.error = e; an exception the handler
\* does not catch ends the thread with the attribute unset.
WorkerCatches ==
    /\ WorkerRunning
    /\ cpc = "raised"
    /\ IF Caught(raised)
       THEN StoreError(raised)
       ELSE /\ threads' = SetThread([Thread EXCEPT !.state = "terminated"])
            /\ classError' = classError
    /\ UNCHANGED <<envVars, mpc, cpc, checkLocals, tmp, raised, probe, history, trace,
                   nextId, executeCalls, tmpCreated>>

\* thread.join()
ThreadJoin ==
    /\ mpc = "join"
    /\ JoinReady(Thread)
    /\ mpc' = "joined"
    /\ UNCHANGED <<envVars, cpc, checkLocals, tmp, raised, threads, classError, probe,
                   history, trace, nextId, executeCalls, tmpCreated>>

\* if thread.error: raise thread.error
ThreadResult ==
    /\ mpc = "joined"
    /\ history' = Append(history,
          Completed(IF Truthy(ThreadError(Thread)) THEN ThreadError(Thread) ELSE None))
    /\ mpc' = "done"
    /\ UNCHANGED <<envVars, cpc, checkLocals, tmp, raised, threads, classError, probe,
                   trace, nextId, executeCalls, tmpCreated>>

\* main is called again in the same process.
MainAgain ==
    /\ mpc = "done"
    /\ inv < MaxInvocations
    /\ IF no_thread THEN TRUE ELSE Thread.state = "terminated"
    /\ inv' = inv + 1
    /\ no_thread' \in BOOLEAN
    /\ mpc' = "main"
    /\ cpc' = "idle"
    /\ my_cgroups' = EmptyMap
    /\ tmp' = "none"
    /\ output' = <<>>
    /\ lines' = <<>>
    /\ task_cgroups' = EmptyMap
    /\ warnings' = <<>>
    /\ raised' = None
    /\ probe' = NoProbe
    /\ trace' = <<>>
    /\ executeCalls' = 0
    /\ tmpCreated' = 0
    /\ UNCHANGED <<wait, own_cgroups, env, threads, classError, history, nextId>>

\* ------------------------------------------------------- specifications --
Check ==
    \/ ReadSnapshot
    \/ Validate
    \/ CreateTmp
    \/ ExecuteRun
    \/ ExecuteRunFails
    \/ ReadOutput
    \/ ReadFails
    \/ Extract
    \/ CompareAll
    \/ Decide

Caller ==
    \/ MainDirect
    \/ DirectDone
    \/ ThreadCreate
    \/ ThreadStart
    \/ WorkerReturns
    \/ WorkerCatches
    \/ ThreadJoin
    \/ ThreadResult

Next == Check \/ Caller

\* One invocation of main, for every snapshot, placement and mode.
Spec == Init /\ [][Next]_vars

\* The scenarios of the full snapshot under /a and of the snapshot without memory,
\* with main invoked up to MaxInvocations times in one process.
InitIso ==
    /\ wait = 1
    /\ own_cgroups \in ScenarioSnapshots
    /\ env = "scenario"
    /\ inv = 1
    /\ no_thread \in BOOLEAN
    /\ threads = <<>>
    /\ classError = None
    /\ history = <<>>
    /\ nextId = 1
    /\ Fresh

NextIso == Check \/ Caller \/ MainAgain

SpecIso == InitIso /\ [][NextIso]_vars

RECURSIVE SeqsUpTo(_, _)
SeqsUpTo(S, n) ==
    IF n = 0 THEN {<<>>}
    ELSE LET shorter == SeqsUpTo(S, n - 1)
         IN  shorter \cup {Append(q, x) : q \in shorter, x \in S}

\* Lines a probe's output can hold: records, noise, and lines close to noise.
CandidateLines ==
    {RecordLine(CPUACCT, InChildOfA),
     <<" ">> \o RecordLine(MEMORY, OwnA),
     <<"\n">>,
     BlankLine,
     DashLine,
     <<" ", "-", "\t", "\n">>,
     <<"-", " ", "-", "\n">>,
     <<"-", "x", "\n">>,
     EchoLine(1),
     <<"\t">> \o EchoLine(10),
     EchoedCommand(1) \o <<"x", "\n">>}

\* The check on the calling thread, with the probe's output just written: the
\* output is any sequence of at most MaxLines candidate lines.
InitFilter ==
    /\ wait \in Waits
    /\ own_cgroups = LayoutSame
    /\ env = "any"
    /\ inv = 1
    /\ no_thread = TRUE
    /\ mpc = "direct"
    /\ cpc = "read"
    /\ my_cgroups = own_cgroups
    /\ tmp = "open"
    /\ output \in SeqsUpTo(CandidateLines, MaxLines)
    /\ lines = <<>>
    /\ task_cgroups = EmptyMap
    /\ warnings = <<>>
    /\ raised = None
    /\ threads = <<>>
    /\ classError = None
    /\ probe \in {[placement |-> EmptyMap, noise |-> TRUE, fault |-> f] :
                     f \in {"none", "read"}}
    /\ history = <<>>
    /\ trace = <<"snapshot", "validate", "execute">>
    /\ nextId = 1
    /\ executeCalls = 1
    /\ tmpCreated = 1

NextFilter == ReadOutput \/ ReadFails

SpecFilter == InitFilter /\ [][NextFilter]_vars

\* --------------------------------------------------------------- claims --
Required == {CPUACCT, CPUSET, MEMORY}

Range(q) == {q[i] : i \in DOMAIN q}

\* The prefix a subsystem's probe path has to start with.
ExpectedPrefix(s) == JoinPath(own_cgroups[s], BENCHMARK)

\* The probe reports a path for s and it lies in a benchmark_ child of the own cgroup.
WellPlaced(s) ==
    /\ s \in DOMAIN probe.placement
    /\ StartsWith(probe.placement[s], ExpectedPrefix(s))

\* The check has ended after a probe run whose output it could read.
ComparedProbe == CheckDone /\ executeCalls = 1 /\ probe.fault = "none"

\* The invocation of main has ended and this is what the calling thread got.
MainResult == history[Len(history)].result
MainDone == mpc = "done" /\ history # <<>> /\ history[Len(history)].inv = inv

\* C1: whenever the caller's snapshot lacks cpuacct, cpuset or memory (with or
\* without freezer), execute_run is never called, the check ends by SystemExit and
\* main ends with a non-zero exit status.
C1_MissingRequiredFailsWithoutProbe ==
    ~(Required \subseteq DOMAIN own_cgroups) =>
        /\ executeCalls = 0
        /\ output = <<>>
        /\ CheckDone => (cpc = "raised" /\ raised.type = "SystemExit")
        /\ MainDone => (MainResult.type = "SystemExit" /\ ExitStatus(MainResult) # 0)

W1_MissingMemoryWithFreezer ==
    /\ MainDone
    /\ DOMAIN own_cgroups = {CPUACCT, CPUSET, FREEZER}
    /\ ~no_thread
    /\ MainResult.type = "SystemExit"

\* C2: with the three required subsystems in the snapshot and every subsystem of
\* the snapshot placed under '<own path>/benchmark_', the check returns normally:
\* no warning, no exception, exit status 0.
C2_WellPlacedPasses ==
    (/\ ComparedProbe
     /\ Required \subseteq DOMAIN own_cgroups
     /\ \A s \in DOMAIN own_cgroups : WellPlaced(s)) =>
        /\ cpc = "returned"
        /\ warnings = <<>>
        /\ raised = None
        /\ MainDone => (MainResult = None /\ ExitStatus(MainResult) = 0)

W2_MixedLayoutPassesThroughNoise ==
    /\ MainDone
    /\ MainResult = None
    /\ own_cgroups = LayoutMixed
    /\ probe.noise
    /\ executeCalls = 1
    /\ \A s \in Subsystems : WellPlaced(s)

\* The subsystems of the snapshot whose reported path lacks the expected prefix.
Offenders == {s \in DOMAIN own_cgroups : ~StartsWith(probe.placement[s], ExpectedPrefix(s))}

\* C3: when the probe reports a path for every subsystem of the snapshot and some
\* path lacks the prefix, the check ends by SystemExit (non-zero exit) and the
\* warnings name exactly the offending subsystems of the snapshot, once each.
C3_AllOffendersReported ==
    (/\ ComparedProbe
     /\ DOMAIN own_cgroups \subseteq DOMAIN probe.placement
     /\ Offenders # {}) =>
        /\ cpc = "raised"
        /\ raised.type = "SystemExit"
        /\ Range(warnings) = Offenders
        /\ Len(warnings) = Cardinality(Offenders)
        /\ MainDone => ExitStatus(MainResult) # 0

W3_TwoOffendersOneWellPlaced ==
    /\ MainDone
    /\ DOMAIN own_cgroups = Required
    /\ DOMAIN probe.placement = Subsystems
    /\ warnings = <<CPUACCT, MEMORY>>
    /\ WellPlaced(CPUSET)
    /\ probe.placement[FREEZER] = OwnA

\* The subsystems of the snapshot without a record or with a path lacking the prefix.
Unverified == {s \in DOMAIN own_cgroups : ~WellPlaced(s)}

C6_AbsentFreezerNeverFails ==
    (/\ ComparedProbe
     /\ Required \subseteq DOMAIN own_cgroups
     /\ \A s \in Required : WellPlaced(s)
     /\ (FREEZER \notin DOMAIN own_cgroups \/ FREEZER \notin DOMAIN probe.placement)) =>
        cpc = "returned"

\* C7: an invocation creates at most one scratch file, none when a required
\* subsystem is missing, and the file is gone whenever the check has ended.
C7_ScratchFileRemoved ==
    /\ tmpCreated <= 1
    /\ (tmp = "none") = (tmpCreated = 0)
    /\ ~(Required \subseteq DOMAIN own_cgroups) => tmpCreated = 0
    /\ cpc \in {"extract", "compare", "decide", "returned", "raised"} => tmp # "open"

W7_RemovedWhenProbeRaises ==
    /\ cpc = "raised"
    /\ raised.type = "ProbeError"
    /\ tmpCreated = 1
    /\ tmp = "deleted"

StepOrder == <<"snapshot", "validate", "execute", "read", "extract", "compare", "decide">>

\* C10: the steps of one invocation happen in the fixed order snapshot, validate,
\* execute, read, extract, compare, decide, each at most once, and execute_run is
\* called at most once whatever fails.
C10_StepsInOrderWithoutRetry ==
    /\ StartsWith(StepOrder, trace)
    /\ executeCalls <= 1
    /\ executeCalls = Cardinality({i \in DOMAIN trace : trace[i] = "execute"})
    /\ cpc \in {"decide", "returned"} => SubSeq(trace, 1, 6) = SubSeq(StepOrder, 1, 6)
    /\ cpc = "returned" => trace = StepOrder

W10_ReadFailureEndsTheCheck ==
    /\ cpc = "raised"
    /\ raised.type = "ReadError"
    /\ trace = <<"snapshot", "validate", "execute", "read">>
    /\ executeCalls = 1

SameInput(g, h) == g.snapshot = h.snapshot /\ g.wait = h.wait /\ g.probe = h.probe

\* C4: two invocations with the same snapshot and probe behaviour end the same way
\* on the calling thread whatever their mode, and in isolated mode the calling
\* thread gets exactly what the check did in the worker: the same exception object
\* when it raised, a normal return when it returned.
C4_ModesAgree ==
    /\ \A i, j \in DOMAIN history :
          SameInput(history[i], history[j]) =>
              history[i].result.type = history[j].result.type
    /\ \A i \in DOMAIN history :
          /\ history[i].checkDone
          /\ history[i].result = history[i].checkRaised

W4_BothModesRaiseProbeError ==
    \E i, j \in DOMAIN history :
        /\ history[i].no_thread
        /\ ~history[j].no_thread
        /\ SameInput(history[i], history[j])
        /\ history[i].result.type = "ProbeError"
        /\ history[j].result.type = "ProbeError"
        /\ history[j].result = history[j].checkRaised

ThreadsOf(n) == {k \in DOMAIN threads : threads[k].owner = n}

\* C8: an isolated invocation creates exactly one thread, the calling thread goes
\* past join and reads the error only when that thread has terminated, a thread's
\* error is the exception of its own check, and no exception object is the result
\* of two invocations.
C8_JoinHandOff ==
    /\ \A i \in DOMAIN history :
          ~history[i].no_thread =>
              /\ history[i].threadState = "terminated"
              /\ Cardinality(ThreadsOf(history[i].inv)) = 1
    /\ (~no_thread /\ mpc \in {"joined", "done"}) =>
          (Thread.owner = inv /\ Thread.state = "terminated")
    /\ \A n \in 1..inv : Cardinality(ThreadsOf(n)) <= 1
    /\ \A i, j \in DOMAIN history :
          (i # j /\ history[i].result # None) => history[i].result # history[j].result

W8_PassAfterIsolatedFailure ==
    /\ Len(history) = 2
    /\ ~history[1].no_thread
    /\ ~history[2].no_thread
    /\ history[1].result.type = "SystemExit"
    /\ history[2].result = None
    /\ Len(threads) = 2

\* A stripped line the filter has to drop.
IsNoise(line) ==
    \/ line = <<>>
    \/ line = <<"sh -c 'sleep ">> \o FormatInt(wait) \o <<"; cat /proc/self/cgroup'">>
    \/ Range(line) = {"-"}

KeptIndices == {i \in DOMAIN output : ~IsNoise(Strip(output[i]))}
NthKept(k) == CHOOSE i \in KeptIndices : Cardinality({j \in KeptIndices : j <= i}) = k

\* C9: after the read loop, lines holds exactly the stripped input lines that are
\* neither blank, nor the echoed command of this wait, nor made of '-' only, in
\* their order; no noise line is kept and every record among them is kept.
C9_FilterKeepsExactlyTheRecords ==
    cpc = "extract" =>
        /\ Len(lines) = Cardinality(KeptIndices)
        /\ \A k \in DOMAIN lines : lines[k] = Strip(output[NthKept(k)])
        /\ \A k \in DOMAIN lines : ~IsNoise(lines[k])
        /\ \A i \in DOMAIN output :
              IsRecord(Strip(output[i])) => Strip(output[i]) \in Range(lines)

W9_RecordBetweenNoise ==
    /\ cpc = "extract"
    /\ Len(output) = 3
    /\ output[1] = DashLine
    /\ output[2] = <<" ">> \o RecordLine(MEMORY, OwnA)
    /\ output[3] = EchoLine(wait)
    /\ lines = <<Strip(RecordLine(MEMORY, OwnA))>>

=============================================================================
